---- MODULE Spec2Model ----
(***************************************************************************)
(* Model of app.py: a Flask front end that talks Modbus RTU to one         *)
(* variable-frequency drive over a serial link.                            *)
(*                                                                         *)
(* Number representation.  Python floats are records [cls, v]: cls is      *)
(* "fin", "nan", "pinf" or "ninf", and v is the value in units of          *)
(* 1/PCT10K of the quantity (1/10000 Hz for frequencies, 1/10000 A for     *)
(* currents), so every value the program computes from the inputs below is *)
(* an exact integer.  Arithmetic is exact where the program's is floating   *)
(* point: the two differ only where round() meets an exact tie, which the  *)
(* rounding errors of the float division and multiplication push to either *)
(* neighbour, so a rounded quotient is the set of integers round() can     *)
(* return.  Python values of other types are records tagged by py.         *)
(***************************************************************************)
EXTENDS Integers, Sequences, FiniteSets, TLC

\* ---------------------------------------------------------------- bounds
\* requests that arrive during one run of the server
MaxRequests == 3
\* codec inputs: frequencies g * GridStep + d, g in -1..MaxGrid, |d| <= MaxOffset
MaxGrid == 13
MaxOffset == 30
\* codec inputs: raw current registers 0..MaxRawCurrent
MaxRawCurrent == 400

\* ------------------------------------------------------------- constants
\* the 10000.0 of pct10k_from_hz and read_freq_cmd
PCT10K == 10000
\* resolution of the float representation: units per Hz and per A
FixedPoint == 100 * 100
\* the 100.0 of read_freq_hz and read_current_a
CENTI == 100
\* the threshold of the current heuristic in read_current_a
AMPS_THRESHOLD == 200
\* register values written by start / stop / reset
CMD_START == 1
CMD_STOP == 6
CMD_RESET == 7

\* ---------------------------------------------------------- Python values
None == [py |-> "None"]
PyInt(n) == [py |-> "int", v |-> n]
PyStr(s) == [py |-> "str", s |-> s]
PyList(items) == [py |-> "list", items |-> items]
Fin(v) == [py |-> "float", cls |-> "fin", v |-> v]
NaN == [py |-> "float", cls |-> "nan", v |-> 0]
PInf == [py |-> "float", cls |-> "pinf", v |-> 0]
NInf == [py |-> "float", cls |-> "ninf", v |-> 0]
\* float(n) of a whole number n of Hz or A
FloatOfInt(n) == Fin(n * FixedPoint)

\* a < b on floats: every comparison with NaN is false
FloatLt(a, b) ==
    /\ a.cls # "nan"
    /\ b.cls # "nan"
    /\ \/ a.cls = "ninf" /\ b.cls # "ninf"
       \/ b.cls = "pinf" /\ a.cls # "pinf"
       \/ a.cls = "fin" /\ b.cls = "fin" /\ a.v < b.v

\* the builtins min(a, b) and max(a, b): the first argument is kept unless the
\* second compares strictly smaller (greater)
pymin(a, b) == IF FloatLt(b, a) THEN b ELSE a
pymax(a, b) == IF FloatLt(a, b) THEN b ELSE a

\* floor(n / d) and n mod d for d > 0 and any integer n
FloorDiv(n, d) == IF n >= 0 THEN n \div d ELSE -((-n + d - 1) \div d)
FloorMod(n, d) == n - d * FloorDiv(n, d)

\* round(n / d) as Python 3 rounds: to nearest, ties to the even neighbour
pyround(n, d) ==
    LET q == FloorDiv(n, d)
        r == FloorMod(n, d)
    IN  IF 2 * r < d THEN q
        ELSE IF 2 * r > d THEN q + 1
        ELSE IF q % 2 = 0 THEN q ELSE q + 1

\* int(round(x)) for a float x whose exact value is n / d: the nearest integer,
\* and either neighbour when n / d lies exactly half way
RoundFloat(n, d) ==
    LET q == FloorDiv(n, d)
        r == FloorMod(n, d)
    IN  IF 2 * r < d THEN {q}
        ELSE IF 2 * r > d THEN {q + 1}
        ELSE {q, q + 1}

\* ----------------------------------------------------------- configuration
\* config.json is not part of the source; these documents are the inputs the
\* model loads.  Register addresses follow the drive family the comments of
\* app.py name (0x1000 frequency setpoint).
Regs ==
    [freq_set |-> 4096, freq_fb |-> 4097, current_fb |-> 4100,
     status |-> 12288, fault |-> 32768, cmd |-> 8192]

ConfigDoc(lo, hi, base) ==
    [serial_port |-> "/dev/ttyUSB0", baudrate |-> 9600, parity |-> "N",
     stopbits |-> 1, bytesize |-> 8, timeout |-> 1, unit_id |-> 1,
     base_freq_hz |-> base, limits_hz |-> [min |-> lo, max |-> hi],
     regs |-> Regs]

\* complete documents that satisfy limits_hz.min <= limits_hz.max, base > 0
ValidConfigs == {ConfigDoc(25, 50, 50), ConfigDoc(0, 60, 50), ConfigDoc(40, 40, 16)}

Unreadable == [py |-> "unreadable"]
NoConfig == [py |-> "unset"]

Drop(d, k) == [j \in (DOMAIN d) \ {k} |-> d[j]]

\* documents with exactly one required key left out
IncompleteConfigs ==
    LET c == ConfigDoc(25, 50, 50)
    IN  {Drop(c, k) : k \in DOMAIN c}
          \cup {[c EXCEPT !.regs = Drop(c.regs, k)] : k \in DOMAIN c.regs}
          \cup {[c EXCEPT !.limits_hz = Drop(c.limits_hz, k)] : k \in DOMAIN c.limits_hz}

SerialKeys == {"serial_port", "baudrate", "parity", "stopbits", "bytesize", "timeout"}

\* ------------------------------------------------------------------ state
VARIABLES
    server,     \* "boot", "serving" or "aborted"
    doc,        \* the contents of config.json
    CFG,        \* the module-level CFG
    rstate,     \* per request: "new", "queued", "running" or "done"
    h,          \* per request: the activation of its route handler
    link,       \* the requests whose client c holds the serial port open
    arg,        \* codec harness: the argument under test
    out         \* codec harness: the function applied and its result

vars == <<server, doc, CFG, rstate, h, link, arg, out>>
srv == <<rstate, h, link>>

\* ------------------------------------------------------------------ codec
clamp_hzNoLower(hz) ==
    pymin(FloatOfInt(CFG.limits_hz.max), hz)

clamp_hz(hz) ==
    LET lo == FloatOfInt(CFG.limits_hz.min)
        hi == FloatOfInt(CFG.limits_hz.max)
    IN  pymax(lo, pymin(hi, hz))

\* the same with the percentage taken of limits_hz.max instead of the base
pct10k_from_hzOfMax(hz) ==
    RoundFloat(hz.v, CFG.limits_hz.max * (FixedPoint \div PCT10K))

\* int(round((hz / base) * 10000.0)) for a finite hz: the values it can return
pct10k_from_hz(hz) ==
    RoundFloat(hz.v, CFG.base_freq_hz * (FixedPoint \div PCT10K))

\* The read_* functions from the value read_regs returned to them.
\* (pct10k / 10000.0) * float(CFG["base_freq_hz"])
read_freq_cmd(regs) ==
    IF regs = None THEN None
    ELSE Fin(regs.items[1] * CFG.base_freq_hz * (FixedPoint \div PCT10K))

\* regs[0] / 100.0
read_freq_hz(regs) ==
    IF regs = None THEN None
    ELSE Fin(regs.items[1] * (FixedPoint \div CENTI))

read_current_aInclusive(regs) ==
    IF regs = None THEN None
    ELSE LET raw == regs.items[1]
         IN  IF raw >= AMPS_THRESHOLD THEN Fin(raw * (FixedPoint \div CENTI))
             ELSE FloatOfInt(raw)

\* raw / 100.0 if raw > 200 else float(raw)
read_current_a(regs) ==
    IF regs = None THEN None
    ELSE LET raw == regs.items[1]
         IN  IF raw > AMPS_THRESHOLD THEN Fin(raw * (FixedPoint \div CENTI))
             ELSE FloatOfInt(raw)

StatusNames == (1 :> "RUN FWD") @@ (2 :> "RUN REV") @@ (3 :> "STOP")

read_status_textAbsent(regs) ==
    IF regs = None THEN None
    ELSE LET raw == regs.items[1]
         IN  IF raw \in DOMAIN StatusNames THEN PyStr(StatusNames[raw])
             ELSE PyStr("STATE " \o ToString(raw))

read_status_text(regs) ==
    IF regs = None THEN PyStr("No comm")
    ELSE LET raw == regs.items[1]
         IN  IF raw \in DOMAIN StatusNames THEN PyStr(StatusNames[raw])
             ELSE PyStr("STATE " \o ToString(raw))

read_faultDefaultZero(regs) ==
    IF regs = None THEN PyInt(0) ELSE PyInt(regs.items[1])

read_fault(regs) ==
    IF regs = None THEN None ELSE PyInt(regs.items[1])

\* ------------------------------------------------------------------ server
Requests == 1..MaxRequests

\* app.run(..., threaded=False): the development server handles one request
\* to completion before it accepts the next
threadedOn == TRUE
threaded == FALSE

ReadRoutes == {"api_status", "index"}
CommandRoutes == {"start", "stop", "reset"}
WriteRoutes == CommandRoutes \cup {"setfreq"}
Routes == ReadRoutes \cup WriteRoutes

Fields == {"status", "fault", "freq_cmd", "freq_act", "amps"}

\* the order in which each read route calls the read_* functions
api_status == <<"status", "fault", "freq_cmd", "freq_act", "amps">>
index == <<"freq_cmd", "freq_act", "amps", "status", "fault">>
ReadOrder(route) == IF route = "api_status" THEN api_status ELSE index

\* the CFG["regs"] key each read_* function reads
RegOf ==
    [status |-> "status", fault |-> "fault", freq_cmd |-> "freq_set",
     freq_act |-> "freq_fb", amps |-> "current_fb"]

\* read_X applied to what read_regs returned
Decode(field, regs) ==
    CASE field = "status" -> read_status_text(regs)
      [] field = "fault" -> read_fault(regs)
      [] field = "freq_cmd" -> read_freq_cmd(regs)
      [] field = "freq_act" -> read_freq_hz(regs)
      [] field = "amps" -> read_current_a(regs)

\* the register each write route passes to write_reg
write_targetAlwaysCmd(route) == "cmd"
write_target(route) == IF route = "setfreq" THEN "freq_set" ELSE "cmd"

\* the value start / stop / reset pass to write_reg
CommandValue == [start |-> CMD_START, stop |-> CMD_STOP, reset |-> CMD_RESET]
CommandWord == [start |-> "START", stop |-> "STOP", reset |-> "RESET"]

\* what the drive answers to a successful read of each register
DeviceValues ==
    [freq_set |-> {5000, 10000}, freq_fb |-> {2500, 4999},
     current_fb |-> {200, 201}, status |-> {3, 9}, fault |-> {0, 4}]

\* request.form of a POST /setfreq: no "freq" field, text float() rejects,
\* or text float() parses to the given value
NoField == [py |-> "missing"]
BadText == PyStr("abc")
FormTicks ==
    {60 * FixedPoint, 50 * FixedPoint, 25 * FixedPoint, 25 * FixedPoint - 100,
     40 * FixedPoint + 8, 37 * FixedPoint + 5025, 0, -(10 * FixedPoint)}
FreqForms == {NoField, BadText, NaN, PInf, NInf} \cup {Fin(t) : t \in FormTicks}
NoForm == [py |-> "none"]

\* outcomes of the pymodbus calls
ConnectOutcomes == {"true", "false", "raise"}
ReadOutcomes == {"regs", "error", "null", "raise"}
WriteOutcomes == {"ack", "error", "null", "raise"}
CloseOutcomes == {"ok", "raise"}

Unset == [py |-> "unset"]
NoFrame == [fn |-> "none"]
NoFlash == [msg |-> "none"]
NoResp == [code |-> 0]
NoOut == [fn |-> "none"]
PyBool(b) == [py |-> "bool", b |-> b]

Idle ==
    [route |-> "none", form |-> NoForm, step |-> 0, at |-> "idle",
     conn |-> "none", txn |-> "none", frame |-> NoFrame, ret |-> Unset,
     closeExc |-> "none", hz |-> Unset, value |-> 0,
     data |-> [f \in Fields |-> Unset], got |-> [f \in Fields |-> Unset],
     calls |-> <<>>, ok |-> Unset, flash |-> NoFlash, resp |-> NoResp]

HasKey(d, k) == k \in DOMAIN d
HasReg(name) == HasKey(CFG, "regs") /\ HasKey(CFG.regs, name)
HasSerial == SerialKeys \subseteq DOMAIN CFG
HasLimit(k) == HasKey(CFG, "limits_hz") /\ HasKey(CFG.limits_hz, k)
HasBase == HasKey(CFG, "base_freq_hz")

\* an exception leaves the view function: Flask answers 500
Raise500(r) == [h EXCEPT ![r].at = "respond", ![r].resp = [code |-> 500]]

\* f"{hz:.2f}": hz in hundredths of a Hz
Fmt2(hz) == pyround(hz.v, FixedPoint \div CENTI)

\* with open("config.json") ... CFG = json.load(f), then app.run(...)
Startup ==
    /\ server = "boot"
    /\ IF doc = Unreadable
       THEN server' = "aborted" /\ CFG' = CFG
       ELSE server' = "serving" /\ CFG' = doc
    /\ UNCHANGED <<doc, srv, arg, out>>

\* a client connects; requests are numbered in order of arrival
Arrive(r) ==
    /\ server = "serving"
    /\ rstate[r] = "new"
    /\ \A q \in Requests : q < r => rstate[q] # "new"
    /\ rstate' = [rstate EXCEPT ![r] = "queued"]
    /\ UNCHANGED <<server, doc, CFG, h, link, arg, out>>

\* the server takes the oldest waiting request and calls its view function
Accept(r) ==
    /\ server = "serving"
    /\ rstate[r] = "queued"
    /\ \A q \in Requests : q < r => rstate[q] # "queued"
    /\ threaded \/ \A q \in Requests : rstate[q] # "running"
    /\ \E route \in Routes :
        \E form \in (IF route = "setfreq" THEN FreqForms ELSE {NoForm}) :
            h' = [h EXCEPT ![r] =
                    [Idle EXCEPT !.route = route, !.form = form, !.step = 1,
                                 !.at = IF route = "setfreq" THEN "entry" ELSE "call"]]
    /\ rstate' = [rstate EXCEPT ![r] = "running"]
    /\ UNCHANGED <<server, doc, CFG, link, arg, out>>

\* finally: c.close(): the port is released on every way out of the try block
closeOnSuccessOnly(r) == IF h[r].txn \in {"regs", "ack"} THEN link \ {r} ELSE link
close(r) == link \ {r}

\* --- read_X() up to and including c.connect() in read_regs
\* CFG["regs"][...] is evaluated first, then mclient() outside the try block
ReadConnect(r) ==
    /\ rstate[r] = "running"
    /\ h[r].route \in ReadRoutes
    /\ h[r].at = "call"
    /\ LET me == h[r]
           reg == RegOf[ReadOrder(me.route)[me.step]]
       IN  IF ~HasReg(reg) \/ ~HasSerial
           THEN /\ h' = Raise500(r)
                /\ link' = link
           ELSE \E o \in ConnectOutcomes :
                  /\ h' = [h EXCEPT ![r] =
                            [me EXCEPT !.conn = o, !.txn = "none", !.frame = NoFrame,
                                       !.closeExc = "none",
                                       !.calls = Append(me.calls, reg),
                                       !.ret = IF o = "true" THEN Unset ELSE None,
                                       !.at = IF o = "true" THEN "connected" ELSE "finally"]]
                  /\ link' = IF o = "true" THEN link \cup {r} ELSE link
    /\ UNCHANGED <<server, doc, CFG, rstate, arg, out>>

\* --- c.read_holding_registers(...) and the checks on rr, inside the try block
ReadTransact(r) ==
    /\ rstate[r] = "running"
    /\ h[r].route \in ReadRoutes
    /\ h[r].at = "connected"
    /\ LET me == h[r]
           reg == RegOf[ReadOrder(me.route)[me.step]]
       IN  IF ~HasKey(CFG, "unit_id")
           THEN h' = [h EXCEPT ![r] = [me EXCEPT !.txn = "raise", !.ret = None,
                                                  !.at = "finally"]]
           ELSE \E o \in ReadOutcomes :
                  \E v \in (IF o = "regs" THEN DeviceValues[reg] ELSE {0}) :
                    h' = [h EXCEPT ![r] =
                            [me EXCEPT !.txn = o,
                                       !.frame = [fn |-> "read_holding_registers",
                                                  address |-> CFG.regs[reg], count |-> 1,
                                                  device_id |-> CFG.unit_id],
                                       !.ret = IF o = "regs" THEN PyList(<<v>>) ELSE None,
                                       !.at = "finally"]]
    /\ UNCHANGED <<server, doc, CFG, rstate, link, arg, out>>

\* --- finally: c.close() with its exception swallowed; read_regs returns, and
\* read_X decodes the result into its field of the view function
ReadClose(r) ==
    /\ rstate[r] = "running"
    /\ h[r].route \in ReadRoutes
    /\ h[r].at = "finally"
    /\ \E c \in CloseOutcomes :
        LET me == h[r]
            field == ReadOrder(me.route)[me.step]
            regs == me.ret
            cmd == IF field = "freq_cmd" THEN regs ELSE me.got["freq_cmd"]
            keyError ==
                \/ field = "freq_cmd" /\ regs # None /\ ~HasBase
                \/ me.route = "index" /\ me.step = 3 /\ cmd = None /\ ~HasLimit("max")
                \/ me.route = "index" /\ me.step = 5
                      /\ ~(HasLimit("min") /\ HasLimit("max"))
        IN  IF keyError
            THEN h' = [Raise500(r) EXCEPT ![r].closeExc = c]
            ELSE h' = [h EXCEPT ![r] =
                        [me EXCEPT !.closeExc = c,
                                   !.got[field] = regs,
                                   !.data[field] = Decode(field, regs),
                                   !.step = me.step + 1,
                                   !.at = IF me.step = Len(ReadOrder(me.route))
                                          THEN "respond" ELSE "call",
                                   !.resp = IF me.step = Len(ReadOrder(me.route))
                                            THEN [code |-> 200] ELSE NoResp]]
    /\ link' = close(r)
    /\ UNCHANGED <<server, doc, CFG, rstate, arg, out>>

\* --- setfreq() up to its call of write_reg: parse, clamp, encode
setfreqUnclamped(r) ==
    /\ rstate[r] = "running"
    /\ h[r].route = "setfreq"
    /\ h[r].at = "entry"
    /\ LET me == h[r]
       IN  IF me.form.py # "float"
           THEN h' = [h EXCEPT ![r] = [me EXCEPT !.flash = [msg |-> "Invalid frequency"],
                                                  !.resp = [code |-> 302],
                                                  !.at = "respond"]]
           ELSE IF me.form.cls # "fin"
           THEN h' = Raise500(r)
           ELSE \E v \in pct10k_from_hz(me.form) :
                  h' = [h EXCEPT ![r] = [me EXCEPT !.hz = me.form, !.value = v,
                                                    !.at = "call"]]
    /\ UNCHANGED <<server, doc, CFG, rstate, link, arg, out>>

setfreq(r) ==
    /\ rstate[r] = "running"
    /\ h[r].route = "setfreq"
    /\ h[r].at = "entry"
    /\ LET me == h[r]
       IN  IF me.form.py # "float"
           THEN h' = [h EXCEPT ![r] = [me EXCEPT !.flash = [msg |-> "Invalid frequency"],
                                                  !.resp = [code |-> 302],
                                                  !.at = "respond"]]
           ELSE IF ~(HasLimit("min") /\ HasLimit("max")) \/ ~HasBase
           THEN h' = Raise500(r)
           ELSE LET hz == clamp_hz(me.form)
                IN  IF hz.cls # "fin"
                    THEN h' = Raise500(r)
                    ELSE \E v \in pct10k_from_hz(hz) :
                           h' = [h EXCEPT ![r] = [me EXCEPT !.hz = hz, !.value = v,
                                                             !.at = "call"]]
    /\ UNCHANGED <<server, doc, CFG, rstate, link, arg, out>>

\* --- start / stop / reset / setfreq up to and including c.connect() in write_reg
WriteConnect(r) ==
    /\ rstate[r] = "running"
    /\ h[r].route \in WriteRoutes
    /\ h[r].at = "call"
    /\ LET me == h[r]
           reg == write_target(me.route)
       IN  IF ~HasReg(reg) \/ ~HasSerial
           THEN /\ h' = Raise500(r)
                /\ link' = link
           ELSE \E o \in ConnectOutcomes :
                  /\ h' = [h EXCEPT ![r] =
                            [me EXCEPT !.conn = o,
                                       !.calls = Append(me.calls, reg),
                                       !.value = IF me.route = "setfreq" THEN me.value
                                                 ELSE CommandValue[me.route],
                                       !.ret = IF o = "true" THEN Unset ELSE PyBool(FALSE),
                                       !.at = IF o = "true" THEN "connected" ELSE "finally"]]
                  /\ link' = IF o = "true" THEN link \cup {r} ELSE link
    /\ UNCHANGED <<server, doc, CFG, rstate, arg, out>>

\* --- c.write_register(...) and the checks on rq, inside the try block
WriteTransact(r) ==
    /\ rstate[r] = "running"
    /\ h[r].route \in WriteRoutes
    /\ h[r].at = "connected"
    /\ LET me == h[r]
           reg == write_target(me.route)
       IN  IF ~HasKey(CFG, "unit_id")
           THEN h' = [h EXCEPT ![r] = [me EXCEPT !.txn = "raise", !.ret = PyBool(FALSE),
                                                  !.at = "finally"]]
           ELSE \E o \in WriteOutcomes :
                  h' = [h EXCEPT ![r] =
                          [me EXCEPT !.txn = o,
                                     !.frame = [fn |-> "write_register",
                                                address |-> CFG.regs[reg],
                                                value |-> me.value,
                                                device_id |-> CFG.unit_id],
                                     !.ret = PyBool(o = "ack"),
                                     !.at = "finally"]]
    /\ UNCHANGED <<server, doc, CFG, rstate, link, arg, out>>

\* --- finally: c.close() with its exception swallowed; write_reg returns, and
\* the view function flashes the outcome and redirects
WriteClose(r) ==
    /\ rstate[r] = "running"
    /\ h[r].route \in WriteRoutes
    /\ h[r].at = "finally"
    /\ \E c \in CloseOutcomes :
        LET me == h[r]
            ok == me.ret.b
            text == IF me.route = "setfreq"
                    THEN IF ok THEN [msg |-> "Set", hz |-> Fmt2(me.hz), cmd |-> me.value]
                         ELSE [msg |-> "Write failed"]
                    ELSE [msg |-> CommandWord[me.route] \o (IF ok THEN " OK" ELSE " FAILED")]
        IN  h' = [h EXCEPT ![r] = [me EXCEPT !.closeExc = c, !.ok = me.ret,
                                             !.flash = text,
                                             !.resp = [code |-> 302],
                                             !.at = "respond"]]
    /\ link' = close(r)
    /\ UNCHANGED <<server, doc, CFG, rstate, arg, out>>

\* --- the view function returns (or Flask turns its exception into a 500)
Respond(r) ==
    /\ rstate[r] = "running"
    /\ h[r].at = "respond"
    /\ rstate' = [rstate EXCEPT ![r] = "done"]
    /\ h' = [h EXCEPT ![r] = Idle]
    /\ UNCHANGED <<server, doc, CFG, link, arg, out>>

InitServer ==
    /\ server = "boot"
    /\ CFG = NoConfig
    /\ rstate = [r \in Requests |-> "new"]
    /\ h = [r \in Requests |-> Idle]
    /\ link = {}
    /\ arg = PyInt(0)
    /\ out = NoOut

Init == InitServer /\ doc \in ValidConfigs

\* config.json as any document: complete, lacking one key, or unreadable
InitCfg == InitServer /\ doc \in ValidConfigs \cup IncompleteConfigs \cup {Unreadable}

Next ==
    \/ Startup
    \/ \E r \in Requests :
        \/ Arrive(r)
        \/ Accept(r)
        \/ ReadConnect(r)
        \/ ReadTransact(r)
        \/ ReadClose(r)
        \/ setfreq(r)
        \/ WriteConnect(r)
        \/ WriteTransact(r)
        \/ WriteClose(r)
        \/ Respond(r)

Spec == Init /\ [][Next]_vars
SpecCfg == InitCfg /\ [][Next]_vars

\* ------------------------------------------------------- server properties
LimitLo == FloatOfInt(CFG.limits_hz.min)
LimitHi == FloatOfInt(CFG.limits_hz.max)
InCall(r) == h[r].at \in {"connected", "finally"}
Returned(r) == h[r].closeExc # "none"
Failed(r) == h[r].conn # "true" \/ h[r].txn \in {"error", "null", "raise"}
\* the field the last completed read_X call of request r filled
LastField(r) == ReadOrder(h[r].route)[h[r].step - 1]

\* C1: a connection is open only inside the read_regs / write_reg call that
\* opened it; once the call has returned, on any path, its connection is
\* closed, a failure of close leaves the returned value as the try block
\* determined it and raises nothing, and with no call executing no connection
\* is open.
C1_ClosedOnEveryPath ==
    /\ \A r \in Requests :
        /\ r \in link => rstate[r] = "running" /\ InCall(r)
        /\ Returned(r) =>
            /\ r \notin link
            /\ h[r].resp.code # 500
            /\ IF h[r].route \in ReadRoutes
               THEN h[r].got[LastField(r)] = h[r].ret
               ELSE h[r].ok = h[r].ret
    /\ (\A r \in Requests : ~InCall(r)) => link = {}

\* a transaction raised, close raised too, and the call has returned
C1_Witness ==
    \E r \in Requests :
        /\ h[r].txn = "raise"
        /\ h[r].closeExc = "raise"
        /\ h[r].at = "call"
        /\ link = {}

\* C2: at most one connection is open on the serial link at any time,
\* however many requests have arrived.
C2_OneInFlight == Cardinality(link) <= 1

\* a connection is open while another request has arrived and waits
C2_Witness ==
    \E r, q \in Requests : r \in link /\ rstate[q] = "queued"

\* C3: a write addressed to CFG["regs"]["cmd"] carries 1, 6 or 7, and
\* setfreq never addresses that register.
C3_CommandCodes ==
    \A r \in Requests :
        h[r].frame.fn = "write_register" =>
            /\ h[r].frame.address = CFG.regs.cmd => h[r].frame.value \in {1, 6, 7}
            /\ h[r].route = "setfreq" => h[r].frame.address # CFG.regs.cmd

C3_Witness ==
    \E r \in Requests :
        /\ h[r].route = "stop"
        /\ h[r].frame.fn = "write_register"
        /\ h[r].frame.address = CFG.regs.cmd
        /\ h[r].frame.value = 6

\* C4: the value setfreq writes to the freq_set register is
\* pct10k_from_hz(clamp_hz(hz)) for the requested hz, so it lies between the
\* encodings of the two limits, and the frequency it reports is the clamped
\* one; with limits 25..50 and base 50 a request of 60 writes 10000 and
\* reports 50.00 Hz.
C4_ClampedWrite ==
    \A r \in Requests :
        (h[r].route = "setfreq" /\ h[r].frame.fn = "write_register") =>
            /\ h[r].frame.address = CFG.regs.freq_set
            /\ h[r].frame.value \in pct10k_from_hz(clamp_hz(h[r].form))
            /\ \A lo \in pct10k_from_hz(LimitLo) : lo <= h[r].frame.value
            /\ \A hi \in pct10k_from_hz(LimitHi) : h[r].frame.value <= hi
            /\ h[r].flash.msg = "Set" =>
                /\ h[r].flash.hz = Fmt2(clamp_hz(h[r].form))
                /\ h[r].flash.cmd = h[r].frame.value
            /\ (CFG = ConfigDoc(25, 50, 50) /\ h[r].form = Fin(60 * FixedPoint)) =>
                /\ h[r].frame.value = 10000
                /\ h[r].flash.msg = "Set" => h[r].flash.hz = 5000

C4_Witness ==
    \E r \in Requests :
        /\ CFG = ConfigDoc(25, 50, 50)
        /\ h[r].form = Fin(60 * FixedPoint)
        /\ h[r].frame.fn = "write_register"
        /\ h[r].frame.value = 10000
        /\ h[r].flash = [msg |-> "Set", hz |-> 5000, cmd |-> 10000]

\* C5: when the open fails, or the transaction answers an error or raises,
\* the call returns a value and raises nothing: None from read_freq_cmd,
\* read_freq_hz, read_current_a and read_fault, "No comm" from
\* read_status_text, False from write_reg; after a failed open no frame is
\* sent.
C5_FailureIsValue ==
    \A r \in Requests :
        /\ h[r].conn \in {"false", "raise"} => h[r].frame = NoFrame /\ h[r].txn = "none"
        /\ (Returned(r) /\ Failed(r)) =>
            /\ h[r].resp.code # 500
            /\ IF h[r].route \in ReadRoutes
               THEN h[r].data[LastField(r)] =
                        IF LastField(r) = "status" THEN PyStr("No comm") ELSE None
               ELSE /\ h[r].ok = PyBool(FALSE)
                    /\ h[r].flash.msg \in {"START FAILED", "STOP FAILED",
                                           "RESET FAILED", "Write failed"}

\* the open failed for a fault read, which came back as None
C5_Witness ==
    \E r \in Requests :
        /\ h[r].route \in ReadRoutes
        /\ Returned(r)
        /\ h[r].conn = "false"
        /\ LastField(r) = "fault"
        /\ h[r].data["fault"] = None
        /\ h[r].frame = NoFrame

\* C10: api_status calls its five reads one after the other, each connection
\* opened only after the previous call has closed its own; whichever of them
\* fail, all five are made, a read that succeeded gives its decoded field, a
\* read that failed gives None, and the status text is always a string
\* ("No comm" when its read failed).
C10_Snapshot ==
    \A r \in Requests :
        h[r].route = "api_status" =>
            /\ h[r].at = "call" => r \notin link /\ Len(h[r].calls) = h[r].step - 1
            /\ r \in link => Len(h[r].calls) = h[r].step
            /\ h[r].at = "respond" =>
                /\ h[r].resp.code = 200
                /\ h[r].calls = <<"status", "fault", "freq_set", "freq_fb", "current_fb">>
                /\ h[r].data["status"].py = "str"
                /\ \A f \in Fields :
                    IF h[r].got[f] = None
                    THEN h[r].data[f] = IF f = "status" THEN PyStr("No comm") ELSE None
                    ELSE /\ h[r].got[f].py = "list"
                         /\ h[r].data[f] = Decode(f, h[r].got[f])
                         /\ h[r].data[f] # None

\* a snapshot in which the status and fault reads failed and the others did not
C10_Witness ==
    \E r \in Requests :
        /\ h[r].route = "api_status"
        /\ h[r].at = "respond"
        /\ h[r].got["status"] = None
        /\ h[r].got["fault"] = None
        /\ h[r].data["freq_cmd"] = Fin(50 * FixedPoint)
        /\ h[r].data["freq_act"] = Fin(25 * FixedPoint)
        /\ h[r].data["amps"] = Fin(201 * 100)

\* C6: with a config.json that lacks a required key the server never starts
\* serving, no request is taken up and no connection is attempted.
C6_FailFast ==
    doc \in IncompleteConfigs =>
        /\ server # "serving"
        /\ \A r \in Requests : rstate[r] = "new" /\ h[r].conn = "none"

\* ---------------------------------------------------------- codec harness
\* Applies the conversion functions of the module to arguments drawn from
\* bounded sets, under a loaded configuration.
GridStep == 5 * FixedPoint
HzTicks == {g * GridStep + d : g \in -1..MaxGrid, d \in -MaxOffset..MaxOffset}
HzInputs == {Fin(t) : t \in HzTicks} \cup {NaN, PInf, NInf}
RawInputs == {PyInt(n) : n \in 0..MaxRawCurrent}

CodecClamp ==
    /\ server = "serving" /\ out = NoOut /\ arg.py = "float"
    /\ out' = [fn |-> "clamp_hz", val |-> clamp_hz(arg)]
    /\ UNCHANGED <<server, doc, CFG, srv, arg>>

CodecEncode ==
    /\ server = "serving" /\ out = NoOut /\ arg.py = "float" /\ arg.cls = "fin"
    /\ \E v \in pct10k_from_hz(arg) : out' = [fn |-> "pct10k_from_hz", val |-> PyInt(v)]
    /\ UNCHANGED <<server, doc, CFG, srv, arg>>

CodecDecode ==
    /\ server = "serving" /\ out.fn = "pct10k_from_hz"
    /\ out' = [fn |-> "read_freq_cmd", val |-> read_freq_cmd(PyList(<<out.val.v>>))]
    /\ UNCHANGED <<server, doc, CFG, srv, arg>>

CodecCurrent ==
    /\ server = "serving" /\ out = NoOut /\ arg.py = "int"
    /\ out' = [fn |-> "read_current_a", val |-> read_current_a(PyList(<<arg.v>>))]
    /\ UNCHANGED <<server, doc, CFG, srv, arg>>

InitCodec ==
    /\ server = "boot"
    /\ doc \in ValidConfigs
    /\ CFG = NoConfig
    /\ rstate = [r \in Requests |-> "new"]
    /\ h = [r \in Requests |-> Idle]
    /\ link = {}
    /\ arg \in HzInputs \cup RawInputs
    /\ out = NoOut

NextCodec == Startup \/ CodecClamp \/ CodecEncode \/ CodecDecode \/ CodecCurrent

SpecCodec == InitCodec /\ [][NextCodec]_vars

InBand(hz) == hz.cls = "fin" /\ LimitLo.v <= hz.v /\ hz.v <= LimitHi.v
Abs(n) == IF n < 0 THEN -n ELSE n

\* C7: under limits_hz.min <= limits_hz.max, clamp_hz returns min for an
\* argument below min, max for an argument above max, the argument itself
\* inside the band, and in every case a finite value inside [min, max].
C7_ClampCorrect ==
    out.fn = "clamp_hz" =>
        /\ InBand(out.val)
        /\ FloatLt(arg, LimitLo) => out.val = LimitLo
        /\ FloatLt(LimitHi, arg) => out.val = LimitHi
        /\ InBand(arg) => out.val = arg

C7_Witness ==
    /\ out.fn = "clamp_hz"
    /\ FloatLt(LimitHi, arg)
    /\ out.val = LimitHi
    /\ LimitLo.v < LimitHi.v

\* C8: for hz inside the commandable band, read_freq_cmd's decoding of
\* pct10k_from_hz(hz) differs from hz by at most base_freq_hz / 10000.
C8_RoundTrip ==
    (out.fn = "read_freq_cmd" /\ InBand(arg)) =>
        Abs(out.val.v - arg.v) <= (CFG.base_freq_hz * FixedPoint) \div 10000

\* a tie of the rounding (hz / base * 10000 ends in .5) inside the band
C8_Witness ==
    /\ out.fn = "read_freq_cmd"
    /\ InBand(arg)
    /\ 2 * Abs(out.val.v - arg.v) = (CFG.base_freq_hz * FixedPoint) \div 10000

\* C9: the current decode divides by 100 exactly when raw > 200: raw 200 is
\* 200.0 A, raw 201 is 2.01 A.
C9_CurrentScale ==
    out.fn = "read_current_a" =>
        /\ arg.v > 200 => out.val.v * 100 = arg.v * FixedPoint
        /\ arg.v <= 200 => out.val.v = arg.v * FixedPoint
        /\ arg.v = 200 => out.val = Fin(200 * FixedPoint)
        /\ arg.v = 201 => out.val = Fin(201 * (FixedPoint \div 100))

C9_Witness ==
    /\ out.fn = "read_current_a"
    /\ arg.v = 201
    /\ out.val = Fin(201 * (FixedPoint \div 100))


====
